---- MODULE Spec2Model ----
(***************************************************************************)
(* cwlogs-writable: a Writable stream that queues log events and ships     *)
(* them to AWS CloudWatch Logs (lib/index.js).                             *)
(*                                                                         *)
(* The stream object is the record `this`; every handler of lib/index.js   *)
(* is an operator from the object before the handler ran to the object     *)
(* after it ran.  Timers and destination calls that have been issued and   *)
(* not yet completed are the entries of this.pending.  this.trace is the   *)
(* record of the handler that ran last: what triggered it, followed by     *)
(* what it did at the stream's boundary (destination calls, emitted        *)
(* events, calls of the onError hook).  this.callbacks, delivered, sent,   *)
(* sentOk, cleared, acquiring, failed and unfaithful are history, not      *)
(* members.                                                                *)
(***************************************************************************)
EXTENDS Integers, Sequences, FiniteSets, TLC

(* ------------------------------ bounds --------------------------------- *)
MaxWrites == 2          \* records the filter accepts
MaxFaults == 2          \* failures the destination reports
MaxQueue == 3           \* events queued when a batch is planned (SpecBatch)

(* --------------------------- program constants ------------------------- *)
null == 0                       \* sequenceToken === null
EventOverhead == 26             \* bytes per log event
DefaultMaxBatchCount == 10000
MinMaxBatchSize == 1024
DefaultMaxBatchSize == 1048576
DefaultRetryableMax == 100
DefaultRetryableDelay == 150
MinBatchSizeOption == 256      \* smallest maxBatchSize validateOptions lets through

(* ------------------------------ inputs --------------------------------- *)
MessageLengths == {1}
NullRec == [kind |-> "null", length |-> 0]
Records == {NullRec} \cup {[kind |-> "string", length |-> n] : n \in MessageLengths}
RetryableMaxOptions == {1, 2}
MaxBatchCountOptions == {1, 2}
MaxBatchSizeOptions == {256}
RetryableErrors == {"ThrottlingException"}
FatalErrors == {"AccessDeniedException"}
AWSErrors == RetryableErrors \cup FatalErrors
\* uploadSequenceToken of another stream of the group whose name begins with
\* logStreamName
SiblingToken == 99
\* inputs of the batch planner: message lengths whose costs (512, 513, 1025)
\* meet maxBatchSize exactly, exceed it by one and exceed it alone
BatchMessageLengths == {486, 487, 999}
BatchCountOptions == {1, 2, 10000}
BatchSizeOptions == {256, 1537, 2048}

VARIABLES
    this,           \* the CWLogsWritable instance, its pending work and its history
    retryableMax,   \* this.retryableMax
    maxBatchCount,  \* this.maxBatchCount
    maxBatchSize,   \* this.maxBatchSize
    onErrorOption,  \* TRUE when options.onError replaced the default hook
    cloudwatch,     \* the destination: [group, stream, token, sibling]
    accepted,       \* every log event _write queued, in order
    faults,         \* number of failures the destination reported so far
    construction    \* new CWLogsWritable(options): the options and how it ended

vars == <<this, retryableMax, maxBatchCount, maxBatchSize, onErrorOption,
          cloudwatch, accepted, faults, construction>>

(* ------------------------------ helpers -------------------------------- *)
Min(a, b) == IF a < b THEN a ELSE b
Max(a, b) == IF a > b THEN a ELSE b
Ids(s) == {s[i].id : i \in 1..Len(s)}
RemoveAt(s, i) == SubSeq(s, 1, i - 1) \o SubSeq(s, i + 1, Len(s))
IsPrefix(s, r) == Len(s) <= Len(r) /\ SubSeq(r, 1, Len(s)) = s

\* a timer or destination call that was issued and has not completed
Task(kind, logEvents, token, retries, attempts) ==
    [kind |-> kind, logEvents |-> logEvents, sequenceToken |-> token,
     retries |-> retries, attempts |-> attempts]

\* one thing that happened at the stream's boundary during the current handler
Entry(op, logEvents, hasEvents, token, err, cbId) ==
    [op |-> op, logEvents |-> logEvents, hasEvents |-> hasEvents,
     sequenceToken |-> token, err |-> err, cbId |-> cbId,
     retries |-> 0, attempts |-> 0, queueSize |-> 0, filter |-> "",
     tokenNow |-> null, pendingNow |-> 0]

\* the entry is stamped with the queue size, the filter, the token and the
\* number of scheduled or in-flight calls of the moment it is recorded
Log(t, e) ==
    [t EXCEPT !.trace = Append(@, [e EXCEPT !.queueSize = Len(t.queuedLogs),
                                            !.filter = t.filterWrite,
                                            !.tokenNow = t.sequenceToken,
                                            !.pendingNow = Len(t.pending)])]

\* the destination calls one acquisition of the sequence token has issued
NoCalls == [describeLogStreams |-> 0, createLogGroup |-> 0, createLogStream |-> 0]

\* the handler that starts with e belongs to an acquisition: it is the
\* completion of one of its calls, or one of its calls is in flight
Acquiring(t, e) ==
    \/ e.op \in {"cb:describeLogStreams", "cb:createLogGroup", "cb:createLogStream"}
    \/ \E i \in 1..Len(t.pending) :
           t.pending[i].kind \in {"describeLogStreams", "createLogGroup", "createLogStream"}

\* the handler that starts now: its trace begins with what triggered it; the
\* count of an acquisition is kept until the handler that ended it is over
Begin(t, e) ==
    Log([t EXCEPT !.trace = <<>>,
                  !.acquiring = IF Acquiring(t, e) THEN @ ELSE NoCalls], e)

(* ------------------------- lib/index.js --------------------------------- *)
retryable(err) == err \in RetryableErrors

getMessageSize(message) == message.length

createLogEvent(rec, id) == [id |-> id, message |-> [length |-> rec.length]]

filterWrite(t, rec) ==
    IF t.filterWrite = "falseFilterWrite" THEN FALSE ELSE rec.kind # "null"

RECURSIVE nextLogBatchSizeLoop(_, _, _, _, _, _)
nextLogBatchSizeLoop(logs, i, batchCount, sizeEstimate, maxSize, maxCount) ==
    IF i >= Len(logs) THEN batchCount
    ELSE LET size == sizeEstimate + EventOverhead + getMessageSize(logs[i + 1].message)
         IN  IF size > maxSize \/ batchCount >= maxCount
             THEN batchCount
             ELSE nextLogBatchSizeLoop(logs, i + 1, i + 1, size, maxSize, maxCount)

\* the loop with sizeEstimate >= maxBatchSize as the cut-off
RECURSIVE nextLogBatchSizeLoop_exclusive(_, _, _, _, _, _)
nextLogBatchSizeLoop_exclusive(logs, i, batchCount, sizeEstimate, maxSize, maxCount) ==
    IF i >= Len(logs) THEN batchCount
    ELSE LET size == sizeEstimate + EventOverhead + getMessageSize(logs[i + 1].message)
         IN  IF size >= maxSize \/ batchCount >= maxCount
             THEN batchCount
             ELSE nextLogBatchSizeLoop_exclusive(logs, i + 1, i + 1, size, maxSize, maxCount)

\* nextLogBatchSize that excludes a prefix whose size equals maxBatchSize
nextLogBatchSize_exclusive(logs) ==
    nextLogBatchSizeLoop_exclusive(logs, 0, 1, 0, maxBatchSize, maxBatchCount)

\* nextLogBatchSize with var batchCount = 0
nextLogBatchSize_fromZero(logs) ==
    nextLogBatchSizeLoop(logs, 0, 0, 0, maxBatchSize, maxBatchCount)

nextLogBatchSize(logs) ==
    nextLogBatchSizeLoop(logs, 0, 1, 0, maxBatchSize, maxBatchCount)

scheduleSendLogs(t) ==
    [t EXCEPT !.pending = Append(@, Task("sendLogs", <<>>, null, 0, 0))]

\* clearQueue that also drops the scheduled cycle's flag
clearQueue_resetsFlag(t) ==
    [t EXCEPT !.queuedLogs = <<>>, !.cleared = @ \cup Ids(t.queuedLogs),
              !.writeQueued = FALSE]

\* var oldQueue = this.queuedLogs; ... return oldQueue
clearQueueResult(t) == t.queuedLogs

\* getQueueSize that also counts the events of the batch being sent
getQueueSize_withInFlight(t) ==
    Len(t.queuedLogs)
    + (IF Len(t.pending) > 0 THEN Len(t.pending[1].logEvents) ELSE 0)

getQueueSize(t) == Len(t.queuedLogs)

clearQueue(t) ==
    [t EXCEPT !.queuedLogs = <<>>, !.cleared = @ \cup Ids(t.queuedLogs)]

emit(t, name, logEvents, err) ==
    Log(t, Entry("emit:" \o name, logEvents, logEvents # <<>>, null, err, 0))

emitPutLogEvents(t, logEvents) ==
    [emit(t, "putLogEvents", logEvents, "") EXCEPT !.delivered = @ \o logEvents]

handleError(t, err, raises) ==
    LET t1 == [emit(t, "error", <<>>, err) EXCEPT !.failed = TRUE]
    IN  IF raises THEN t1
        ELSE [clearQueue(t1) EXCEPT !.filterWrite = "falseFilterWrite"]

\* nextAfterError with the returned events appended behind the queue
nextAfterError_tail(t, cbId, arg, raises) ==
    IF t.onErrorNextCbId # cbId THEN t
    ELSE LET t1 == [t EXCEPT !.onErrorNextCbId = @ + 1, !.sequenceToken = null]
         IN  IF arg.kind = "error" THEN handleError(t1, arg.err, raises)
             ELSE LET t2 == IF arg.kind = "logEvents"
                            THEN [t1 EXCEPT !.queuedLogs = @ \o arg.logEvents]
                            ELSE t1
                  IN  scheduleSendLogs(t2)

\* nextAfterError that overwrites a non-empty queue with the returned events
nextAfterError_overwrite(t, cbId, arg, raises) ==
    IF t.onErrorNextCbId # cbId THEN t
    ELSE LET t1 == [t EXCEPT !.onErrorNextCbId = @ + 1, !.sequenceToken = null]
         IN  IF arg.kind = "error" THEN handleError(t1, arg.err, raises)
             ELSE LET t2 == IF arg.kind = "logEvents"
                            THEN [t1 EXCEPT !.queuedLogs = arg.logEvents]
                            ELSE t1
                  IN  scheduleSendLogs(t2)

\* nextAfterError without the increment that invalidates the callback
nextAfterError_noIncrement(t, cbId, arg, raises) ==
    IF t.onErrorNextCbId # cbId THEN t
    ELSE LET t1 == [t EXCEPT !.sequenceToken = null]
         IN  IF arg.kind = "error" THEN handleError(t1, arg.err, raises)
             ELSE LET t2 == IF arg.kind = "logEvents"
                            THEN [t1 EXCEPT !.queuedLogs =
                                     IF Len(@) # 0 THEN arg.logEvents \o @ ELSE arg.logEvents]
                            ELSE t1
                  IN  scheduleSendLogs(t2)

\* nextAfterError that advances the callback id by two
nextAfterError_incrementsTwice(t, cbId, arg, raises) ==
    IF t.onErrorNextCbId # cbId THEN t
    ELSE LET t1 == [t EXCEPT !.onErrorNextCbId = @ + 2, !.sequenceToken = null]
         IN  IF arg.kind = "error" THEN handleError(t1, arg.err, raises)
             ELSE LET t2 == IF arg.kind = "logEvents"
                            THEN [t1 EXCEPT !.queuedLogs =
                                     IF Len(@) # 0 THEN arg.logEvents \o @ ELSE arg.logEvents]
                            ELSE t1
                  IN  scheduleSendLogs(t2)

\* nextAfterError that re-queues the events and schedules no _sendLogs
nextAfterError_noSchedule(t, cbId, arg, raises) ==
    IF t.onErrorNextCbId # cbId THEN t
    ELSE LET t1 == [t EXCEPT !.onErrorNextCbId = @ + 1, !.sequenceToken = null]
         IN  IF arg.kind = "error" THEN handleError(t1, arg.err, raises)
             ELSE IF arg.kind = "logEvents"
                  THEN [t1 EXCEPT !.queuedLogs =
                           IF Len(@) # 0 THEN arg.logEvents \o @ ELSE arg.logEvents]
                  ELSE t1

\* arg is what the hook passed to `next`: an Error, nothing, or log events
nextAfterError(t, cbId, arg, raises) ==
    IF t.onErrorNextCbId # cbId THEN t
    ELSE LET t1 == [t EXCEPT !.onErrorNextCbId = @ + 1, !.sequenceToken = null]
         IN  IF arg.kind = "error" THEN handleError(t1, arg.err, raises)
             ELSE LET t2 == IF arg.kind = "logEvents"
                            THEN [t1 EXCEPT !.queuedLogs =
                                     IF Len(@) # 0 THEN arg.logEvents \o @ ELSE arg.logEvents]
                            ELSE t1
                  IN  scheduleSendLogs(t2)

\* the bound function this._nextAfterError.bind(this, cbId) handed to the hook
Callback(cbId, err, logEvents, hasEvents) ==
    [cbId |-> cbId, err |-> err, logEvents |-> logEvents, hasEvents |-> hasEvents,
     called |-> FALSE]

\* the hook calls the callback cb with arg
callNext(t, cb, arg, raises) ==
    nextAfterError([t EXCEPT !.callbacks =
                       [i \in DOMAIN @ |-> IF @[i].cbId = cb.cbId
                                           THEN [@[i] EXCEPT !.called = TRUE] ELSE @[i]]],
                   cb.cbId, arg, raises)

onError(t, err, logEvents, hasEvents, cbId, raises) ==
    LET cb == Callback(cbId, err, logEvents, hasEvents)
        t1 == [Log(t, Entry("onError", logEvents, hasEvents, null, err, cbId))
                  EXCEPT !.callbacks = Append(@, cb)]
    IN  IF onErrorOption THEN t1
        ELSE callNext(t1, cb, [kind |-> "error", err |-> err, logEvents |-> <<>>], raises)

attemptPut(t, logEvents, token, retries, attempts) ==
    LET t1 == Log(t, Entry("putLogEvents", logEvents, TRUE, token, "", 0))
    IN  [t1 EXCEPT !.pending = Append(@, Task("putLogEvents", logEvents, token,
                                               retries, attempts + 1)),
                   !.sent = @ \o logEvents]

putLogEvents(t, logEvents, token) == attemptPut(t, logEvents, token, 0, 0)

getSequenceToken(t) ==
    LET t1 == Log(t, Entry("describeLogStreams", <<>>, FALSE, null, "", 0))
    IN  [t1 EXCEPT !.pending = Append(@, Task("describeLogStreams", <<>>, null, 0, 0)),
                   !.acquiring.describeLogStreams = @ + 1]

createLogGroup(t) ==
    LET t1 == Log(t, Entry("createLogGroup", <<>>, FALSE, null, "", 0))
    IN  [t1 EXCEPT !.pending = Append(@, Task("createLogGroup", <<>>, null, 0, 0)),
                   !.acquiring.createLogGroup = @ + 1]

createLogStream(t) ==
    LET t1 == Log(t, Entry("createLogStream", <<>>, FALSE, null, "", 0))
    IN  [t1 EXCEPT !.pending = Append(@, Task("createLogStream", <<>>, null, 0, 0)),
                   !.acquiring.createLogStream = @ + 1]

createLogGroupAndStream(t) == createLogGroup(t)

\* sendLogs that puts the whole queue whatever nextLogBatchSize says
sendLogs_wholeQueue(t) ==
    IF t.sequenceToken = null THEN getSequenceToken(t)
    ELSE IF Len(t.queuedLogs) = 0 THEN [t EXCEPT !.writeQueued = FALSE]
    ELSE putLogEvents([t EXCEPT !.queuedLogs = <<>>], t.queuedLogs, t.sequenceToken)

\* sendLogs without the token query of a null sequenceToken
sendLogs_skipsQuery(t) ==
    IF Len(t.queuedLogs) = 0 THEN [t EXCEPT !.writeQueued = FALSE]
    ELSE LET batchCount == nextLogBatchSize(t.queuedLogs)
             logEvents == IF batchCount = Len(t.queuedLogs) THEN t.queuedLogs
                          ELSE SubSeq(t.queuedLogs, 1, batchCount)
             rest == IF batchCount = Len(t.queuedLogs) THEN <<>>
                     ELSE SubSeq(t.queuedLogs, batchCount + 1, Len(t.queuedLogs))
         IN  putLogEvents([t EXCEPT !.queuedLogs = rest], logEvents, t.sequenceToken)

\* sendLogs whose splice removes one event more than it puts
sendLogs_spliceTooMany(t) ==
    IF t.sequenceToken = null THEN getSequenceToken(t)
    ELSE IF Len(t.queuedLogs) = 0 THEN [t EXCEPT !.writeQueued = FALSE]
    ELSE LET batchCount == nextLogBatchSize(t.queuedLogs)
             logEvents == IF batchCount = Len(t.queuedLogs) THEN t.queuedLogs
                          ELSE SubSeq(t.queuedLogs, 1, batchCount)
             rest == IF batchCount = Len(t.queuedLogs) THEN <<>>
                     ELSE SubSeq(t.queuedLogs, batchCount + 2, Len(t.queuedLogs))
         IN  putLogEvents([t EXCEPT !.queuedLogs = rest], logEvents, t.sequenceToken)

sendLogs(t) ==
    IF t.sequenceToken = null THEN getSequenceToken(t)
    ELSE IF Len(t.queuedLogs) = 0 THEN [t EXCEPT !.writeQueued = FALSE]
    ELSE LET batchCount == nextLogBatchSize(t.queuedLogs)
             logEvents == IF batchCount = Len(t.queuedLogs) THEN t.queuedLogs
                          ELSE SubSeq(t.queuedLogs, 1, batchCount)
             rest == IF batchCount = Len(t.queuedLogs) THEN <<>>
                     ELSE SubSeq(t.queuedLogs, batchCount + 1, Len(t.queuedLogs))
         IN  putLogEvents([t EXCEPT !.queuedLogs = rest], logEvents, t.sequenceToken)

\* sendLogsTokenCb that hands the hook the queue as the events of the failure
sendLogsTokenCb_handsQueue(t, err, sequenceToken, raises) ==
    IF err # ""
    THEN LET t1 == [t EXCEPT !.onErrorNextCbId = @ + 1]
         IN  onError(t1, err, t1.queuedLogs, TRUE, t1.onErrorNextCbId, raises)
    ELSE sendLogs([t EXCEPT !.sequenceToken = sequenceToken])

\* the callback _sendLogs passes to _getSequenceToken
sendLogsTokenCb(t, err, sequenceToken, raises) ==
    IF err # ""
    THEN LET t1 == [t EXCEPT !.onErrorNextCbId = @ + 1]
         IN  onError(t1, err, <<>>, FALSE, t1.onErrorNextCbId, raises)
    ELSE sendLogs([t EXCEPT !.sequenceToken = sequenceToken])

\* sendLogsPutCb that hands the hook the queue instead of the failed batch
sendLogsPutCb_handsQueue(t, err, sequenceToken, logEvents, raises) ==
    IF err # ""
    THEN LET t1 == [t EXCEPT !.onErrorNextCbId = @ + 1]
         IN  onError(t1, err, t1.queuedLogs, TRUE, t1.onErrorNextCbId, raises)
    ELSE LET t1 == [t EXCEPT !.sequenceToken = sequenceToken]
             t2 == emitPutLogEvents(t1, logEvents)
         IN  IF Len(t2.queuedLogs) # 0 THEN scheduleSendLogs(t2)
             ELSE [t2 EXCEPT !.writeQueued = FALSE]

\* sendLogsPutCb that schedules the next _sendLogs whatever the queue holds
sendLogsPutCb_alwaysSchedules(t, err, sequenceToken, logEvents, raises) ==
    IF err # ""
    THEN LET t1 == [t EXCEPT !.onErrorNextCbId = @ + 1]
         IN  onError(t1, err, logEvents, TRUE, t1.onErrorNextCbId, raises)
    ELSE LET t1 == [t EXCEPT !.sequenceToken = sequenceToken]
             t2 == emitPutLogEvents(t1, logEvents)
         IN  scheduleSendLogs(t2)

\* sendLogsPutCb that emits putLogEvents before it stores the new token
sendLogsPutCb_emitFirst(t, err, sequenceToken, logEvents, raises) ==
    IF err # ""
    THEN LET t1 == [t EXCEPT !.onErrorNextCbId = @ + 1]
         IN  onError(t1, err, logEvents, TRUE, t1.onErrorNextCbId, raises)
    ELSE LET t1 == emitPutLogEvents(t, logEvents)
             t2 == [t1 EXCEPT !.sequenceToken = sequenceToken]
         IN  IF Len(t2.queuedLogs) # 0 THEN scheduleSendLogs(t2)
             ELSE [t2 EXCEPT !.writeQueued = FALSE]

\* sendLogsPutCb that calls the hook without the events of the failed batch
sendLogsPutCb_dropsBatch(t, err, sequenceToken, logEvents, raises) ==
    IF err # ""
    THEN LET t1 == [t EXCEPT !.onErrorNextCbId = @ + 1]
         IN  onError(t1, err, <<>>, FALSE, t1.onErrorNextCbId, raises)
    ELSE LET t1 == [t EXCEPT !.sequenceToken = sequenceToken]
             t2 == emitPutLogEvents(t1, logEvents)
         IN  IF Len(t2.queuedLogs) # 0 THEN scheduleSendLogs(t2)
             ELSE [t2 EXCEPT !.writeQueued = FALSE]

\* sendLogsPutCb that does not schedule the next _sendLogs after a success
sendLogsPutCb_neverReschedules(t, err, sequenceToken, logEvents, raises) ==
    IF err # ""
    THEN LET t1 == [t EXCEPT !.onErrorNextCbId = @ + 1]
         IN  onError(t1, err, logEvents, TRUE, t1.onErrorNextCbId, raises)
    ELSE LET t1 == [t EXCEPT !.sequenceToken = sequenceToken]
             t2 == emitPutLogEvents(t1, logEvents)
         IN  IF Len(t2.queuedLogs) # 0 THEN t2
             ELSE [t2 EXCEPT !.writeQueued = FALSE]

\* the callback _sendLogs passes to _putLogEvents
sendLogsPutCb(t, err, sequenceToken, logEvents, raises) ==
    IF err # ""
    THEN LET t1 == [t EXCEPT !.onErrorNextCbId = @ + 1]
         IN  onError(t1, err, logEvents, TRUE, t1.onErrorNextCbId, raises)
    ELSE LET t1 == [t EXCEPT !.sequenceToken = sequenceToken]
             t2 == emitPutLogEvents(t1, logEvents)
         IN  IF Len(t2.queuedLogs) # 0 THEN scheduleSendLogs(t2)
             ELSE [t2 EXCEPT !.writeQueued = FALSE]

\* attemptPutCb with retryableMax >= retries++ (one retry too many)
attemptPutCb_offByOne(t, task, err, nextSequenceToken, raises) ==
    IF err # ""
    THEN IF retryable(err) /\ retryableMax >= task.retries
         THEN [t EXCEPT !.pending = Append(@,
                  Task("retryTimer", task.logEvents, task.sequenceToken,
                       task.retries + 1, task.attempts))]
         ELSE sendLogsPutCb(t, err, null, task.logEvents, raises)
    ELSE sendLogsPutCb([t EXCEPT !.sentOk = @ \o task.logEvents],
                       "", nextSequenceToken, task.logEvents, raises)

\* attemptPutCb that does not look at err.retryable
attemptPutCb_retriesAll(t, task, err, nextSequenceToken, raises) ==
    IF err # ""
    THEN IF retryableMax > task.retries
         THEN [t EXCEPT !.pending = Append(@,
                  Task("retryTimer", task.logEvents, task.sequenceToken,
                       task.retries + 1, task.attempts))]
         ELSE sendLogsPutCb(t, err, null, task.logEvents, raises)
    ELSE sendLogsPutCb([t EXCEPT !.sentOk = @ \o task.logEvents],
                       "", nextSequenceToken, task.logEvents, raises)

\* attemptPutCb whose retry takes along the events queued in the meantime
attemptPutCb_retriesWithQueue(t, task, err, nextSequenceToken, raises) ==
    IF err # ""
    THEN IF retryable(err) /\ retryableMax > task.retries
         THEN [t EXCEPT !.pending = Append(@,
                  Task("retryTimer", task.logEvents \o t.queuedLogs, task.sequenceToken,
                       task.retries + 1, task.attempts))]
         ELSE sendLogsPutCb(t, err, null, task.logEvents, raises)
    ELSE sendLogsPutCb([t EXCEPT !.sentOk = @ \o task.logEvents],
                       "", nextSequenceToken, task.logEvents, raises)

\* the callback attemptPut passes to cloudwatch.putLogEvents
attemptPutCb(t, task, err, nextSequenceToken, raises) ==
    IF err # ""
    THEN IF retryable(err) /\ retryableMax > task.retries
         THEN [t EXCEPT !.pending = Append(@,
                  Task("retryTimer", task.logEvents, task.sequenceToken,
                       task.retries + 1, task.attempts))]
         ELSE sendLogsPutCb(t, err, null, task.logEvents, raises)
    ELSE sendLogsPutCb([t EXCEPT !.sentOk = @ \o task.logEvents],
                       "", nextSequenceToken, task.logEvents, raises)

\* describeLogStreamsCb that queries again after a retryable error
describeLogStreamsCb_retries(t, err, logStreams, raises) ==
    IF err # ""
    THEN IF err = "ResourceNotFoundException" THEN createLogGroupAndStream(t)
         ELSE IF retryable(err) THEN getSequenceToken(t)
         ELSE sendLogsTokenCb(t, err, null, raises)
    ELSE IF Len(logStreams) = 0 THEN createLogStream(t)
    ELSE sendLogsTokenCb(t, "", logStreams[1].uploadSequenceToken, raises)

\* the callback _getSequenceToken passes to cloudwatch.describeLogStreams
describeLogStreamsCb(t, err, logStreams, raises) ==
    IF err # ""
    THEN IF err = "ResourceNotFoundException" THEN createLogGroupAndStream(t)
         ELSE sendLogsTokenCb(t, err, null, raises)
    ELSE IF Len(logStreams) = 0 THEN createLogStream(t)
    ELSE sendLogsTokenCb(t, "", logStreams[1].uploadSequenceToken, raises)

\* createLogGroupCb that calls _createLogStream before it emits createLogGroup
createLogGroupCb_streamFirst(t, err, raises) ==
    IF err # "" THEN sendLogsTokenCb(t, err, null, raises)
    ELSE emit(createLogStream(t), "createLogGroup", <<>>, "")

\* createLogGroupCb that queries again before it creates the stream
createLogGroupCb_queriesFirst(t, err, raises) ==
    IF err # "" THEN sendLogsTokenCb(t, err, null, raises)
    ELSE getSequenceToken(emit(t, "createLogGroup", <<>>, ""))

\* the callback _createLogGroupAndStream passes to _createLogGroup
createLogGroupCb(t, err, raises) ==
    IF err # "" THEN sendLogsTokenCb(t, err, null, raises)
    ELSE createLogStream(emit(t, "createLogGroup", <<>>, ""))

\* the callbacks passed to _createLogStream (both end in _getSequenceToken)
createLogStreamCb(t, err, raises) ==
    IF err # "" THEN sendLogsTokenCb(t, err, null, raises)
    ELSE getSequenceToken(emit(t, "createLogStream", <<>>, ""))

\* write that puts the event in front of the queue
write_unshift(t, rec, id) ==
    LET t0 == IF filterWrite(t, rec)
              THEN LET t1 == [t EXCEPT !.queuedLogs = <<createLogEvent(rec, id)>> \o @]
                   IN  IF ~t1.writeQueued
                       THEN scheduleSendLogs([t1 EXCEPT !.writeQueued = TRUE])
                       ELSE t1
              ELSE t
    IN  Log(t0, Entry("cb", <<>>, FALSE, null, "", 0))

\* write that calls cb only when it started a cycle, holding back the others
write_ackWhenScheduling(t, rec, id) ==
    IF filterWrite(t, rec)
    THEN LET t1 == [t EXCEPT !.queuedLogs = Append(@, createLogEvent(rec, id))]
         IN  IF ~t1.writeQueued
             THEN Log(scheduleSendLogs([t1 EXCEPT !.writeQueued = TRUE]),
                      Entry("cb", <<>>, FALSE, null, "", 0))
             ELSE t1
    ELSE Log(t, Entry("cb", <<>>, FALSE, null, "", 0))

\* write that schedules _sendLogs without looking at writeQueued
write_alwaysSchedules(t, rec, id) ==
    LET t0 == IF filterWrite(t, rec)
              THEN LET t1 == [t EXCEPT !.queuedLogs = Append(@, createLogEvent(rec, id))]
                   IN  scheduleSendLogs([t1 EXCEPT !.writeQueued = TRUE])
              ELSE t
    IN  Log(t0, Entry("cb", <<>>, FALSE, null, "", 0))

write(t, rec, id) ==
    LET t0 == IF filterWrite(t, rec)
              THEN LET t1 == [t EXCEPT !.queuedLogs = Append(@, createLogEvent(rec, id))]
                   IN  IF ~t1.writeQueued
                       THEN scheduleSendLogs([t1 EXCEPT !.writeQueued = TRUE])
                       ELSE t1
              ELSE t
    IN  Log(t0, Entry("cb", <<>>, FALSE, null, "", 0))

(* ------------------------------ constructor ---------------------------- *)
ctorMaxBatchCount(opt) == Min(DefaultMaxBatchCount, Max(1, opt))
ctorMaxBatchSize(opt) == Min(DefaultMaxBatchSize, Max(MinMaxBatchSize, opt))
ctorRetryableMax(opt) == Max(0, opt)

\* option values: a number, the string 'nextTick', another string, a function,
\* or a property the options object does not have
Num(n) == [type |-> "number", value |-> n]
NextTick == [type |-> "nextTick", value |-> 0]
Text == [type |-> "string", value |-> 0]
Function == [type |-> "function", value |-> 0]
Omitted == [type |-> "undefined", value |-> 0]

has(v) == v.type # "undefined"                 \* hasOwnProperty.call(options, name)
isFiniteNumber(v) == v.type = "number"
isInterval(v) == v.type = "nextTick" \/ (isFiniteNumber(v) /\ v.value >= 0)

\* validateOptions without the upper limit of maxBatchCount
validateOptions_noUpperCount(o) ==
    IF o.logGroupName.type \notin {"string", "nextTick"}
    THEN "logGroupName option must be a string"
    ELSE IF o.logStreamName.type \notin {"string", "nextTick"}
    THEN "logStreamName option must be a string"
    ELSE IF has(o.writeInterval) /\ ~isInterval(o.writeInterval)
    THEN "writeInterval option must be a positive number or nextTick, if specified"
    ELSE IF has(o.retryableMax) /\ (~isFiniteNumber(o.retryableMax) \/ o.retryableMax.value < 1)
    THEN "retryableMax option must be a non-zero positive number, if specified"
    ELSE IF has(o.retryableDelay) /\ ~isInterval(o.retryableDelay)
    THEN "retryableDelay option must be a positive number or nextTick, if specified"
    ELSE IF has(o.maxBatchCount) /\ (~isFiniteNumber(o.maxBatchCount)
                                      \/ o.maxBatchCount.value < 1)
    THEN "maxBatchCount option must be a positive number from 1 to 10000, if specified"
    ELSE IF has(o.maxBatchSize) /\ (~isFiniteNumber(o.maxBatchSize)
                                     \/ o.maxBatchSize.value < MinBatchSizeOption
                                     \/ o.maxBatchSize.value > DefaultMaxBatchSize)
    THEN "maxBatchSize option must be a positive number from 256 to 1048576, if specified"
    ELSE IF has(o.onError) /\ o.onError.type # "function"
    THEN "onError option must be a function, if specified"
    ELSE ""

\* the message of the Error validateOptions throws, "" when it returns
validateOptions(o) ==
    IF o.logGroupName.type \notin {"string", "nextTick"}
    THEN "logGroupName option must be a string"
    ELSE IF o.logStreamName.type \notin {"string", "nextTick"}
    THEN "logStreamName option must be a string"
    ELSE IF has(o.writeInterval) /\ ~isInterval(o.writeInterval)
    THEN "writeInterval option must be a positive number or nextTick, if specified"
    ELSE IF has(o.retryableMax) /\ (~isFiniteNumber(o.retryableMax) \/ o.retryableMax.value < 1)
    THEN "retryableMax option must be a non-zero positive number, if specified"
    ELSE IF has(o.retryableDelay) /\ ~isInterval(o.retryableDelay)
    THEN "retryableDelay option must be a positive number or nextTick, if specified"
    ELSE IF has(o.maxBatchCount) /\ (~isFiniteNumber(o.maxBatchCount)
                                      \/ o.maxBatchCount.value < 1
                                      \/ o.maxBatchCount.value > DefaultMaxBatchCount)
    THEN "maxBatchCount option must be a positive number from 1 to 10000, if specified"
    ELSE IF has(o.maxBatchSize) /\ (~isFiniteNumber(o.maxBatchSize)
                                     \/ o.maxBatchSize.value < MinBatchSizeOption
                                     \/ o.maxBatchSize.value > DefaultMaxBatchSize)
    THEN "maxBatchSize option must be a positive number from 256 to 1048576, if specified"
    ELSE IF has(o.onError) /\ o.onError.type # "function"
    THEN "onError option must be a function, if specified"
    ELSE ""

\* the members the constructor sets before it reads the options
NewInstance ==
    [queuedLogs |-> <<>>, sequenceToken |-> null, writeQueued |-> FALSE,
     onErrorNextCbId |-> 1, filterWrite |-> "filterWrite",
     pending |-> <<>>, callbacks |-> <<>>, trace |-> <<>>,
     delivered |-> <<>>, sent |-> <<>>, sentOk |-> <<>>,
     cleared |-> {}, acquiring |-> NoCalls,
     failed |-> FALSE, unfaithful |-> FALSE]

\* no instance: the constructor has not run, or it threw
NoInstance == [constructed |-> FALSE]

\* how a construction stands: not run yet, thrown, or returned
Construction(o, phase, error) ==
    [options |-> o, phase |-> phase, error |-> error,
     writeInterval |-> IF phase # "constructed" THEN Omitted
                       ELSE IF o.writeInterval.type = "number" THEN o.writeInterval
                       ELSE NextTick,
     retryableDelay |-> IF phase # "constructed" THEN Omitted
                        ELSE IF o.retryableDelay.type \in {"nextTick", "number"}
                        THEN o.retryableDelay
                        ELSE Num(DefaultRetryableDelay),
     client |-> phase = "constructed"]          \* this.createService(...) was called

\* the settings the constructor derives from the options
Settings(o) ==
    [retryableMax |-> IF o.retryableMax.type = "number"
                      THEN ctorRetryableMax(o.retryableMax.value)
                      ELSE DefaultRetryableMax,
     maxBatchCount |-> IF o.maxBatchCount.type = "number"
                       THEN ctorMaxBatchCount(o.maxBatchCount.value)
                       ELSE DefaultMaxBatchCount,
     maxBatchSize |-> IF o.maxBatchSize.type = "number"
                      THEN ctorMaxBatchSize(o.maxBatchSize.value)
                      ELSE DefaultMaxBatchSize,
     onError |-> has(o.onError)]

\* the options objects made of the given values, the rest left out
Options(retryableMaxes, maxBatchCounts, maxBatchSizes, onErrors) ==
    {[logGroupName |-> Text, logStreamName |-> Text, writeInterval |-> Omitted,
      retryableMax |-> Num(r), retryableDelay |-> Omitted,
      maxBatchCount |-> Num(c), maxBatchSize |-> Num(b), onError |-> h] :
        r \in retryableMaxes, c \in maxBatchCounts, b \in maxBatchSizes, h \in onErrors}

\* new CWLogsWritable(o) returned
Constructed(o) ==
    /\ validateOptions(o) = ""
    /\ construction = Construction(o, "constructed", "")
    /\ retryableMax = Settings(o).retryableMax
    /\ maxBatchCount = Settings(o).maxBatchCount
    /\ maxBatchSize = Settings(o).maxBatchSize
    /\ onErrorOption = Settings(o).onError

Init ==
    /\ this = NewInstance
    /\ \E o \in Options(RetryableMaxOptions, MaxBatchCountOptions, MaxBatchSizeOptions,
                         {Omitted, Function}) : Constructed(o)
    /\ cloudwatch \in {[group |-> FALSE, stream |-> FALSE, token |-> 1, sibling |-> FALSE],
                       [group |-> TRUE, stream |-> FALSE, token |-> 1, sibling |-> FALSE],
                       [group |-> TRUE, stream |-> FALSE, token |-> 1, sibling |-> TRUE],
                       [group |-> TRUE, stream |-> TRUE, token |-> 1, sibling |-> FALSE]}
    /\ accepted = <<>>
    /\ faults = 0

(* ------------------------------- actions -------------------------------- *)
Config == <<retryableMax, maxBatchCount, maxBatchSize, onErrorOption, construction>>

\* Writable#write(rec) -> _write(rec, enc, cb)
Write ==
    \E rec \in Records :
        /\ filterWrite(this, rec) => Len(accepted) < MaxWrites
        /\ this' = write(Begin(this, Entry("write", <<>>, FALSE, null, rec.kind, 0)),
                         rec, Len(accepted) + 1)
        /\ accepted' = IF filterWrite(this, rec)
                       THEN Append(accepted, createLogEvent(rec, Len(accepted) + 1))
                       ELSE accepted
        /\ UNCHANGED <<Config, cloudwatch, faults>>

\* the host calls stream.clearQueue()
ClearQueue ==
    /\ LET t == Begin(this, Entry("clearQueue", <<>>, FALSE, null, "", 0))
       IN  this' = Log(clearQueue(t), Entry("return", clearQueueResult(t), TRUE, null, "", 0))
    /\ UNCHANGED <<Config, cloudwatch, accepted, faults>>

\* process.nextTick / setTimeout fires _sendLogs
SendLogs ==
    \E i \in 1..Len(this.pending) :
        /\ this.pending[i].kind = "sendLogs"
        /\ this' = sendLogs(Begin([this EXCEPT !.pending = RemoveAt(@, i)],
                                  Entry("timer:sendLogs", <<>>, FALSE, null, "", 0)))
        /\ UNCHANGED <<Config, cloudwatch, accepted, faults>>

\* whether stream.emit('error', err) throws (no 'error' listener, or it throws);
\* only asked where the handler can reach _handleError
Raises(reachesHandleError) == IF reachesHandleError THEN BOOLEAN ELSE {FALSE}

Fault(err) ==
    /\ faults < MaxFaults
    /\ err \in AWSErrors
    /\ faults' = faults + 1

\* the destination call this.pending[i] completes with err ("" for success)
Done(i, err) ==
    Begin([this EXCEPT !.pending = RemoveAt(@, i)],
          [Entry("cb:" \o this.pending[i].kind, this.pending[i].logEvents, FALSE,
                 this.pending[i].sequenceToken, err, 0)
              EXCEPT !.retries = this.pending[i].retries,
                     !.attempts = this.pending[i].attempts])

\* data.logStreams of describeLogStreams({logGroupName, logStreamNamePrefix}):
\* the streams whose names begin with logStreamName, ordered by name, so
\* the stream named logStreamName comes first when it exists
logStreams(cw) ==
    (IF cw.stream THEN <<[uploadSequenceToken |-> cw.token]>> ELSE <<>>)
    \o (IF cw.sibling THEN <<[uploadSequenceToken |-> SiblingToken]>> ELSE <<>>)

\* cloudwatch.describeLogStreams completes
DescribeLogStreamsDone ==
    \E i \in 1..Len(this.pending), raises \in Raises(~onErrorOption) :
        /\ this.pending[i].kind = "describeLogStreams"
        /\ \/ /\ ~cloudwatch.group
              /\ this' = describeLogStreamsCb(Done(i, "ResourceNotFoundException"),
                                              "ResourceNotFoundException", <<>>, raises)
              /\ UNCHANGED faults
           \/ /\ cloudwatch.group
              /\ this' = describeLogStreamsCb(Done(i, ""), "", logStreams(cloudwatch), raises)
              /\ UNCHANGED faults
           \/ \E err \in AWSErrors :
                  /\ Fault(err)
                  /\ this' = describeLogStreamsCb(Done(i, err), err, <<>>, raises)
        /\ UNCHANGED <<Config, cloudwatch, accepted>>

\* cloudwatch.createLogGroup completes
CreateLogGroupDone ==
    \E i \in 1..Len(this.pending), raises \in Raises(~onErrorOption) :
        /\ this.pending[i].kind = "createLogGroup"
        /\ \/ /\ this' = createLogGroupCb(Done(i, ""), "", raises)
              /\ cloudwatch' = [cloudwatch EXCEPT !.group = TRUE]
              /\ UNCHANGED faults
           \/ \E err \in AWSErrors :
                  /\ Fault(err)
                  /\ this' = createLogGroupCb(Done(i, err), err, raises)
                  /\ UNCHANGED cloudwatch
        /\ UNCHANGED <<Config, accepted>>

\* cloudwatch.createLogStream completes
CreateLogStreamDone ==
    \E i \in 1..Len(this.pending), raises \in Raises(~onErrorOption) :
        /\ this.pending[i].kind = "createLogStream"
        /\ \/ /\ this' = createLogStreamCb(Done(i, ""), "", raises)
              /\ cloudwatch' = [cloudwatch EXCEPT !.stream = TRUE]
              /\ UNCHANGED faults
           \/ \E err \in AWSErrors :
                  /\ Fault(err)
                  /\ this' = createLogStreamCb(Done(i, err), err, raises)
                  /\ UNCHANGED cloudwatch
        /\ UNCHANGED <<Config, accepted>>

\* cloudwatch.putLogEvents completes
PutLogEventsDone ==
    \E i \in 1..Len(this.pending), raises \in Raises(~onErrorOption) :
        /\ this.pending[i].kind = "putLogEvents"
        /\ \/ /\ cloudwatch.stream
              /\ this' = attemptPutCb(Done(i, ""), this.pending[i], "",
                                      cloudwatch.token + 1, raises)
              /\ cloudwatch' = [cloudwatch EXCEPT !.token = @ + 1]
              /\ UNCHANGED faults
           \/ /\ ~cloudwatch.stream      \* no stream named logStreamName to put to
              /\ faults < MaxFaults
              /\ faults' = faults + 1
              /\ this' = attemptPutCb(Done(i, "ResourceNotFoundException"), this.pending[i],
                                      "ResourceNotFoundException", null, raises)
              /\ UNCHANGED cloudwatch
           \/ \E err \in AWSErrors :
                  /\ cloudwatch.stream
                  /\ Fault(err)
                  /\ this' = attemptPutCb(Done(i, err), this.pending[i], err, null, raises)
                  /\ UNCHANGED cloudwatch
        /\ UNCHANGED <<Config, accepted>>

\* process.nextTick / setTimeout fires attemptPut again
RetryTimer ==
    \E i \in 1..Len(this.pending) :
        /\ this.pending[i].kind = "retryTimer"
        /\ LET task == this.pending[i]
           IN  this' = attemptPut(Begin([this EXCEPT !.pending = RemoveAt(@, i)],
                                        Entry("timer:attemptPut", <<>>, FALSE, null, "", 0)),
                                  task.logEvents, task.sequenceToken,
                                  task.retries, task.attempts)
        /\ UNCHANGED <<Config, cloudwatch, accepted, faults>>

\* what a custom onError hook may pass to the `next` callback cb
NextArgs(cb) ==
    {[kind |-> "error", err |-> cb.err, logEvents |-> <<>>],
     [kind |-> "none", err |-> "", logEvents |-> <<>>]}
    \cup (IF cb.hasEvents
          THEN {[kind |-> "logEvents", err |-> "", logEvents |-> cb.logEvents],
                [kind |-> "logEvents", err |-> "", logEvents |-> Tail(cb.logEvents)]}
          ELSE {})

\* resuming with exactly what the hook was handed
Faithful(cb, arg) ==
    IF cb.hasEvents THEN arg.kind = "logEvents" /\ arg.logEvents = cb.logEvents
    ELSE arg.kind = "none"

\* the host's onError hook, now or later, calls a `next` callback it was given
CallNext ==
    /\ onErrorOption
    /\ \E i \in 1..Len(this.callbacks) :
         \E arg \in NextArgs(this.callbacks[i]) :
          \E raises \in Raises(arg.kind = "error") :
            LET cb == this.callbacks[i]
                t == Begin(this,
                           IF cb.called
                           THEN Entry("next:again", <<>>, FALSE, null, "", cb.cbId)
                           ELSE Entry("next:" \o arg.kind, arg.logEvents,
                                      arg.kind = "logEvents", null, arg.err, cb.cbId))
            IN  this' = callNext([t EXCEPT !.unfaithful =
                                     @ \/ (~cb.called /\ ~Faithful(cb, arg))],
                                 cb, arg, raises)
    /\ UNCHANGED <<Config, cloudwatch, accepted, faults>>

Next ==
    \/ Write
    \/ ClearQueue
    \/ SendLogs
    \/ DescribeLogStreamsDone
    \/ CreateLogGroupDone
    \/ CreateLogStreamDone
    \/ PutLogEventsDone
    \/ RetryTimer
    \/ CallNext

Spec == Init /\ [][Next]_vars

(* ---- the batch planner on its own: a burst of writes, then the cycle ---- *)
\* the queue after n synchronous writes of strings
BatchQueues ==
    UNION {{[i \in 1..n |-> createLogEvent([kind |-> "string", length |-> f[i]], i)] :
               f \in [1..n -> BatchMessageLengths]} : n \in 1..MaxQueue}

\* the instance after a burst of writes in one tick: the queue holds them,
\* writeQueued is set and the first _sendLogs is scheduled
InitBatch ==
    /\ \E q \in BatchQueues :
          /\ accepted = q
          /\ this = [queuedLogs |-> q, sequenceToken |-> null, writeQueued |-> TRUE,
                     onErrorNextCbId |-> 1, filterWrite |-> "filterWrite",
                     pending |-> <<Task("sendLogs", <<>>, null, 0, 0)>>,
                     callbacks |-> <<>>,
                     trace |-> <<Entry("write", <<>>, FALSE, null, "string", 0),
                                 [Entry("cb", <<>>, FALSE, null, "", 0)
                                     EXCEPT !.queueSize = Len(q), !.filter = "filterWrite"]>>,
                     delivered |-> <<>>, sent |-> <<>>, sentOk |-> <<>>,
                     cleared |-> {}, acquiring |-> NoCalls,
                     failed |-> FALSE, unfaithful |-> FALSE]
    /\ \E o \in Options(RetryableMaxOptions, BatchCountOptions, BatchSizeOptions,
                         {Omitted, Function}) : Constructed(o)
    /\ cloudwatch = [group |-> TRUE, stream |-> TRUE, token |-> 1, sibling |-> FALSE]
    /\ faults = 0

NextBatch ==
    \/ SendLogs
    \/ DescribeLogStreamsDone
    \/ PutLogEventsDone
    \/ RetryTimer

SpecBatch == InitBatch /\ [][NextBatch]_vars

(* ---- the stream with a hook that always resumes and calls that complete ---- *)
\* a stream with an onError hook, a destination whose group holds no other
\* stream with the same name prefix
InitLive ==
    /\ Init
    /\ onErrorOption
    /\ ~cloudwatch.sibling

\* the hook calls the `next` it was handed, for the first time, with the
\* events it was handed (next() when it was handed null)
Resume ==
    /\ CallNext
    /\ this'.trace[1].op # "next:again"
    /\ ~this'.unfaithful

\* the host never calls clearQueue; the hook calls each `next` once, never
\* as next(err)
NextLive ==
    \/ Write
    \/ SendLogs
    \/ DescribeLogStreamsDone
    \/ CreateLogGroupDone
    \/ CreateLogStreamDone
    \/ PutLogEventsDone
    \/ RetryTimer
    \/ Resume

\* a timer that was set fires, a destination call that was issued completes
\* (with a failure at most MaxFaults times in all), and the hook resumes
Fairness ==
    /\ WF_vars(SendLogs)
    /\ WF_vars(RetryTimer)
    /\ WF_vars(DescribeLogStreamsDone)
    /\ WF_vars(CreateLogGroupDone)
    /\ WF_vars(CreateLogStreamDone)
    /\ WF_vars(PutLogEventsDone)
    /\ WF_vars(Resume)

SpecLive == InitLive /\ [][NextLive]_vars /\ Fairness

(* ------- nextLogBatchSize on its own: one call with any queue ------------ *)
\* the arrays nextLogBatchSize may be handed: the queues of up to MaxQueue
\* events, the empty one among them
PlannerQueues == {<<>>} \cup BatchQueues

\* a call about to be made: the array as it is, the array as it was handed
\* over, and no result yet
InitPlanner ==
    /\ \E q \in PlannerQueues :
          this = [queuedLogs |-> q, argument |-> q, returned |-> FALSE, batchCount |-> 0]
    /\ \E o \in Options(RetryableMaxOptions, BatchCountOptions, BatchSizeOptions,
                         {Omitted, Function}) : Constructed(o)
    /\ cloudwatch = [group |-> TRUE, stream |-> TRUE, token |-> 1, sibling |-> FALSE]
    /\ accepted = <<>>
    /\ faults = 0

\* stream.nextLogBatchSize(queuedLogs) runs; it reads the array and assigns
\* nothing but its own locals
NextLogBatchSize ==
    /\ ~this.returned
    /\ this' = [this EXCEPT !.returned = TRUE,
                            !.batchCount = nextLogBatchSize(this.queuedLogs)]
    /\ UNCHANGED <<Config, cloudwatch, accepted, faults>>

NextPlanner == NextLogBatchSize

SpecPlanner == InitPlanner /\ [][NextPlanner]_vars

(* ---------------- construction on its own: new CWLogsWritable(o) --------- *)
ConfigOptions ==
    [logGroupName : {Text, Num(1)},
     logStreamName : {Text, Num(1)},
     writeInterval : {Omitted, NextTick, Num(-1), Num(0)},
     retryableMax : {Omitted, Num(0), Num(1), Num(100)},
     retryableDelay : {Omitted, Num(-1), Num(150)},
     maxBatchCount : {Omitted, Num(0), Num(1), Num(10000), Num(10001)},
     maxBatchSize : {Omitted, Num(255), Num(256), Num(1024), Num(1048576), Num(1048577)},
     onError : {Omitted, Function}]

InitConfig ==
    /\ this = NoInstance
    /\ \E o \in ConfigOptions : construction = Construction(o, "new", "")
    /\ retryableMax = 0
    /\ maxBatchCount = 0
    /\ maxBatchSize = 0
    /\ onErrorOption = FALSE
    /\ cloudwatch = [group |-> TRUE, stream |-> TRUE, token |-> 1, sibling |-> FALSE]
    /\ accepted = <<>>
    /\ faults = 0

\* the constructor runs: validateOptions first, then the members, the
\* settings and last the service client
Construct ==
    /\ construction.phase = "new"
    /\ LET o == construction.options
           msg == validateOptions(o)
       IN  IF msg # ""
           THEN /\ construction' = Construction(o, "thrown", msg)
                /\ UNCHANGED <<this, retryableMax, maxBatchCount, maxBatchSize,
                               onErrorOption>>
           ELSE /\ this' = NewInstance
                /\ construction' = Construction(o, "constructed", "")
                /\ retryableMax' = Settings(o).retryableMax
                /\ maxBatchCount' = Settings(o).maxBatchCount
                /\ maxBatchSize' = Settings(o).maxBatchSize
                /\ onErrorOption' = Settings(o).onError
    /\ UNCHANGED <<cloudwatch, accepted, faults>>

NextConfig == Construct

SpecConfig == InitConfig /\ [][NextConfig]_vars

(* ------------------------------ properties ------------------------------ *)
Trigger(t) == IF Len(t.trace) > 0 THEN t.trace[1].op ELSE ""
Did(t, op) == {i \in 1..Len(t.trace) : t.trace[i].op = op}
\* the instance without the records of the current handler
Members(t) == [t EXCEPT !.trace = <<>>, !.acquiring = NoCalls]

\* no fail-stop, no events dropped by the hook, no clearQueue
NothingDropped == ~this.failed /\ ~this.unfaithful /\ this.cleared = {}
\* nothing scheduled, nothing in flight, no hook awaiting `next`
Quiescent == ~this.writeQueued /\ this.pending = <<>>

\* C1: while the hook re-queues exactly what it was handed (no fail-stop, no
\* clearQueue), the events of the 'putLogEvents' notifications, in emission
\* order, are a prefix of the accepted events in write order.
C1_DeliveredInOrder ==
    NothingDropped => IsPrefix(this.delivered, accepted)

\* a batch holding only the first event failed and was re-queued, the second
\* event was written after that batch had left the queue, both are delivered
C1_Witness ==
    /\ NothingDropped
    /\ Len(accepted) = 2
    /\ maxBatchCount = 2
    /\ this.delivered = accepted
    /\ \E i \in 1..Len(this.callbacks) :
           /\ this.callbacks[i].called
           /\ this.callbacks[i].hasEvents
           /\ this.callbacks[i].logEvents = <<accepted[1]>>

\* C2 as stated: once the stream is idle, the events of all putLogEvents
\* calls, in call order, are the accepted events in write order.
C2_AllCallsEqualAccepted ==
    (NothingDropped /\ Quiescent) => this.sent = accepted

\* C2 as amended: the events of the putLogEvents calls that succeeded, in call
\* order, are a prefix of the accepted events in write order, and all of them
\* once the stream is idle.
C2_SucceededCallsEqualAccepted ==
    NothingDropped => /\ IsPrefix(this.sentOk, accepted)
                      /\ Quiescent => this.sentOk = accepted

\* two events were shipped although some putLogEvents call failed on the way
C2_Witness ==
    /\ NothingDropped /\ Quiescent
    /\ Len(accepted) = 2
    /\ this.sentOk = accepted
    /\ this.sent # this.sentOk

\* C3: at most one timer or destination call is pending, and none while
\* writeQueued is false.
C3_SingleCycle ==
    /\ Len(this.pending) <= 1
    /\ ~this.writeQueued => Len(this.pending) = 0

\* a record was written while a retry timer was pending: still one cycle
C3_Witness ==
    /\ Len(this.pending) = 1
    /\ this.pending[1].kind = "retryTimer"
    /\ Len(this.queuedLogs) > 0
    /\ Trigger(this) = "write"

\* C4: once a next(err) call was honored, the queue is empty, writes are
\* filtered out and nothing is scheduled or in flight, for ever.
C4_FailedIsInert ==
    this.failed => /\ this.queuedLogs = <<>>
                   /\ this.filterWrite = "falseFilterWrite"
                   /\ this.pending = <<>>

\* C5: with the default onError, a failure handed to the hook fail-stops the
\* stream in the same step: 'error' is emitted with that error, the queue is
\* cleared and writes are ignored from then on.
C5_DefaultHookFailStops ==
    (~onErrorOption /\ Len(this.callbacks) > 0) =>
        /\ this.queuedLogs = <<>>
        /\ this.filterWrite = "falseFilterWrite"
        /\ \A i \in Did(this, "onError") :
               \E j \in Did(this, "emit:error") :
                   j > i /\ this.trace[j].err = this.trace[i].err

\* C6: a honored next() or next(E) puts E in front of the queue, leaves the
\* token null and schedules exactly one _sendLogs; a _sendLogs timer that
\* fires with a null token starts with describeLogStreams.
C6_HonoredResume ==
    [][/\ Trigger(this') \in {"next:none", "next:logEvents"}
          => /\ this'.queuedLogs = this'.trace[1].logEvents \o this.queuedLogs
             /\ this'.sequenceToken = null
             /\ this.pending = <<>>
             /\ this'.pending = <<Task("sendLogs", <<>>, null, 0, 0)>>
             /\ this'.writeQueued
       /\ (Trigger(this') = "timer:sendLogs" /\ this.sequenceToken = null)
          => /\ Len(this'.trace) = 2
             /\ this'.trace[2].op = "describeLogStreams"
             /\ this'.queuedLogs = this.queuedLogs
      ]_vars

\* next(E) was honored while the queue held a record written after the batch
\* E had been taken from it
C6_Witness ==
    /\ maxBatchCount = 2
    /\ Trigger(this) = "next:logEvents"
    /\ Len(this.trace[1].logEvents) > 0
    /\ Len(this.queuedLogs) > Len(this.trace[1].logEvents)
    /\ SubSeq(this.queuedLogs, 1, Len(this.trace[1].logEvents)) = this.trace[1].logEvents
    /\ this.sequenceToken = null
    /\ Len(this.pending) = 1 /\ this.pending[1].kind = "sendLogs"

\* C7: a call of a `next` callback that was called before changes nothing.
C7_OneEffectPerFailure ==
    [][Trigger(this') = "next:again" => Members(this') = Members(this)]_vars

\* the callback of an earlier failure is called again after a later failure,
\* while records are queued
C7_Witness ==
    /\ Trigger(this) = "next:again"
    /\ this.trace[1].cbId + 1 < this.onErrorNextCbId
    /\ Len(this.queuedLogs) > 0

\* C8: a putLogEvents failure marked retryable is retried while fewer than
\* retryableMax + 1 attempts were made and goes to the hook on attempt
\* retryableMax + 1; a send that succeeds took at most retryableMax + 1
\* attempts and does not reach the hook.
C8_RetryUpToMax ==
    (Trigger(this) = "cb:putLogEvents") =>
        LET e == this.trace[1] IN
        /\ e.attempts = e.retries + 1
        /\ (e.err \in RetryableErrors /\ e.attempts <= retryableMax)
           => /\ Did(this, "onError") = {}
              /\ this.pending = <<Task("retryTimer", e.logEvents, e.sequenceToken,
                                       e.retries + 1, e.attempts)>>
        /\ (e.err \in RetryableErrors /\ e.attempts > retryableMax)
           => /\ e.attempts = retryableMax + 1
              /\ \E i \in Did(this, "onError") : this.trace[i].err = e.err
        /\ e.err = ""
           => /\ e.attempts <= retryableMax + 1
              /\ Did(this, "onError") = {}
              /\ Cardinality(Did(this, "emit:putLogEvents")) = 1

\* attempt retryableMax + 1 failed with a retryable error and reached the hook
C8_Witness ==
    /\ Trigger(this) = "cb:putLogEvents"
    /\ this.trace[1].err \in RetryableErrors
    /\ this.trace[1].attempts = retryableMax + 1
    /\ Did(this, "onError") # {}

\* C9: a putLogEvents failure not marked retryable goes to the hook in the
\* same step, unchanged, and no retry is scheduled; when it is the first
\* failure of the send the send made exactly one attempt.
C9_NoRetryOfFatal ==
    (Trigger(this) = "cb:putLogEvents" /\ this.trace[1].err \in FatalErrors) =>
        /\ Cardinality(Did(this, "onError")) = 1
        /\ \A i \in Did(this, "onError") : this.trace[i].err = this.trace[1].err
        /\ \A i \in 1..Len(this.pending) :
               this.pending[i].kind \notin {"retryTimer", "putLogEvents"}
        /\ this.trace[1].attempts = this.trace[1].retries + 1
        /\ this.trace[1].retries = 0 => this.trace[1].attempts = 1

\* the first attempt failed fatally although two retries were allowed
C9_Witness ==
    /\ Trigger(this) = "cb:putLogEvents"
    /\ this.trace[1].err \in FatalErrors
    /\ this.trace[1].attempts = 1
    /\ retryableMax = 2
    /\ Did(this, "onError") # {}

\* C10: the first attempt of a send carries exactly the events taken from the
\* queue head; when the send fails for good the hook is called once, with
\* that error and those events, which are then neither queued nor delivered.
C10_HookGetsFailedBatch ==
    [][/\ \A i \in 1..Len(this'.pending) :
             (/\ this'.pending[i].kind = "putLogEvents" /\ this'.pending[i].attempts = 1
              /\ Did(this', "putLogEvents") # {})
             => /\ this.queuedLogs = this'.pending[i].logEvents \o this'.queuedLogs
                /\ Len(this'.pending[i].logEvents) > 0
       /\ (Trigger(this') = "cb:putLogEvents" /\ Did(this', "onError") # {})
          => /\ Cardinality(Did(this', "onError")) = 1
             /\ \A i \in Did(this', "onError") :
                    /\ this'.trace[i].err = this'.trace[1].err
                    /\ this'.trace[i].hasEvents
                    /\ this'.trace[i].logEvents = this'.trace[1].logEvents
                    /\ this'.trace[i].queueSize = Len(this.queuedLogs)
                    /\ Ids(this'.trace[i].logEvents) \cap Ids(this.queuedLogs) = {}
                    /\ Ids(this'.trace[i].logEvents) \cap Ids(this'.delivered) = {}
             /\ Did(this', "emit:putLogEvents") = {}
             /\ this'.delivered = this.delivered
       /\ (Trigger(this') = "cb:putLogEvents" /\ this'.trace[1].err # ""
             /\ Did(this', "onError") = {})
          => Len(this'.pending) = 1 /\ this'.pending[1].kind = "retryTimer"
      ]_vars

\* the hook holds a failed batch while a later record is queued
C10_Witness ==
    /\ Trigger(this) = "cb:putLogEvents"
    /\ \E i \in Did(this, "onError") :
           /\ this.trace[i].hasEvents
           /\ Len(this.trace[i].logEvents) = 1
    /\ Len(this.queuedLogs) = 1
    /\ maxBatchCount = 2
    /\ onErrorOption

(* token acquisition *)
TokenSteps == {"cb:describeLogStreams", "cb:createLogGroup", "cb:createLogStream"}
\* the handler that just ran was the completion of a token-acquisition call
\* that failed (a missing group reported by describeLogStreams is no failure)
TokenFailure(t) ==
    /\ Trigger(t) \in TokenSteps
    /\ t.trace[1].err # ""
    /\ ~(Trigger(t) = "cb:describeLogStreams" /\ t.trace[1].err = "ResourceNotFoundException")

\* C11: when describeLogStreams, createLogGroup or createLogStream fails, the
\* hook is called exactly once, with that error and no events, while the
\* queue is what it was before the failure; no putLogEvents is issued, and
\* with a hook that does not resume the queue stays as it was.
C11_TokenFailureKeepsQueue ==
    [][TokenFailure(this') =>
          /\ Cardinality(Did(this', "onError")) = 1
          /\ \A i \in Did(this', "onError") :
                 /\ this'.trace[i].err = this'.trace[1].err
                 /\ ~this'.trace[i].hasEvents
                 /\ this'.trace[i].logEvents = <<>>
                 /\ this'.trace[i].queueSize = Len(this.queuedLogs)
          /\ Did(this', "putLogEvents") = {}
          /\ \A i \in 1..Len(this'.pending) : this'.pending[i].kind # "putLogEvents"
          /\ onErrorOption => this'.queuedLogs = this.queuedLogs
      ]_vars

\* createLogStream failed while a record was queued; the hook holds the error
C11_Witness ==
    /\ Trigger(this) = "cb:createLogStream"
    /\ this.trace[1].err \in AWSErrors
    /\ Did(this, "onError") # {}
    /\ onErrorOption
    /\ Len(this.queuedLogs) > 0
    /\ this.pending = <<>>

(* batch planning *)
\* the size PutLogEvents counts for the first k events of logs
RECURSIVE Cost(_, _)
Cost(logs, k) ==
    IF k = 0 THEN 0
    ELSE Cost(logs, k - 1) + EventOverhead + getMessageSize(logs[k].message)

\* the first k events of logs are within both caps
Fits(logs, k) ==
    /\ k \in 1..Min(Len(logs), maxBatchCount)
    /\ Cost(logs, k) <= maxBatchSize

\* _sendLogs took a batch in the handler that just ran
Planned(t) ==
    /\ Trigger(t) \in {"timer:sendLogs", "cb:describeLogStreams"}
    /\ Did(t, "putLogEvents") # {}

\* the batch the handler that just ran passed to putLogEvents
Batch(t) == t.trace[CHOOSE i \in Did(t, "putLogEvents") : TRUE].logEvents

\* C12: when _sendLogs plans a batch from a queue whose first event is within
\* maxBatchSize, the batch size is the largest k within both caps (a prefix
\* of exactly maxBatchSize is in, one byte over is out), the whole queue
\* when the whole queue is within both caps.
C12_LargestPrefixWithinCaps ==
    [][Planned(this') =>
          LET q == this.queuedLogs
              r == nextLogBatchSize(q)
          IN  /\ Len(Batch(this')) = r
              /\ (\E k \in 1..Len(q) : Fits(q, k))
                 => /\ Fits(q, r)
                    /\ \A k \in 1..Len(q) : Fits(q, k) => k <= r
              /\ Fits(q, Len(q)) => r = Len(q)
      ]_vars

\* a batch of exactly maxBatchSize bytes was taken although the count cap
\* allowed more and more events were queued
C12_Witness ==
    /\ Planned(this)
    /\ Len(Batch(this)) = 2
    /\ Cost(Batch(this), 2) = maxBatchSize
    /\ maxBatchCount > 2
    /\ Len(this.queuedLogs) > 0

\* C13: the batch planned from a non-empty queue is never empty; when the
\* first event alone exceeds maxBatchSize the batch is that event alone;
\* every batch taken shortens the queue.
C13_OversizedGoesAlone ==
    [][Planned(this') =>
          LET q == this.queuedLogs
              r == nextLogBatchSize(q)
          IN  /\ r >= 1
              /\ Len(Batch(this')) >= 1
              /\ Cost(q, 1) > maxBatchSize => r = 1 /\ Batch(this') = <<q[1]>>
              /\ Len(this'.queuedLogs) < Len(q)
      ]_vars

\* an event larger than maxBatchSize was sent alone while others stayed queued
C13_Witness ==
    /\ Planned(this)
    /\ Len(Batch(this)) = 1
    /\ Cost(Batch(this), 1) > maxBatchSize
    /\ maxBatchCount > 1
    /\ Len(this.queuedLogs) > 0

\* C14: after a burst of writes that is within both caps, while every
\* destination call succeeds: putLogEvents is called once, with all the
\* events in write order, which empties the queue; when that call has
\* succeeded the events were notified, the queue is empty, writeQueued is
\* false and nothing is scheduled or in flight.
C14_OneBatchThenIdle ==
    (faults = 0 /\ Fits(accepted, Len(accepted))) =>
        /\ this.sent \in {<<>>, accepted}
        /\ this.sent = accepted => this.queuedLogs = <<>>
        /\ (Trigger(this) = "cb:putLogEvents" /\ this.trace[1].err = "") => Quiescent
        /\ Quiescent => /\ this.sent = accepted
                        /\ this.delivered = accepted
                        /\ this.queuedLogs = <<>>

\* three events written in one burst were shipped by one call; the stream idles
C14_Witness ==
    /\ faults = 0
    /\ Len(accepted) = 3
    /\ Fits(accepted, 3)
    /\ Trigger(this) = "cb:putLogEvents"
    /\ this.trace[1].logEvents = accepted
    /\ this.delivered = accepted
    /\ Quiescent

\* C15: a batch taken by _sendLogs is the first nextLogBatchSize events of the
\* queue, put by one call, and the other events stay queued in order; a
\* batch has 1..maxBatchCount events and is within maxBatchSize unless it is
\* one event.  When a put succeeded, _sendLogs is scheduled again exactly if
\* events are queued, else writeQueued is cleared.  While nothing fails and
\* clearQueue is not used, the batches put so far are, one after the other,
\* a prefix of the written events.
C15_ConsecutivePrefixes ==
    [][/\ Planned(this') =>
             LET q == this.queuedLogs
                 r == nextLogBatchSize(q)
                 b == Batch(this')
             IN  /\ Cardinality(Did(this', "putLogEvents")) = 1
                 /\ b = SubSeq(q, 1, r)
                 /\ this'.queuedLogs = SubSeq(q, r + 1, Len(q))
                 /\ this'.pending = <<Task("putLogEvents", b, this'.sequenceToken, 0, 1)>>
                 /\ Len(b) \in 1..maxBatchCount
                 /\ Len(b) > 1 => Cost(b, Len(b)) <= maxBatchSize
       /\ (Trigger(this') = "cb:putLogEvents" /\ this'.trace[1].err = "") =>
             /\ this'.queuedLogs = this.queuedLogs
             /\ this.queuedLogs # <<>>
                => /\ this'.pending = <<Task("sendLogs", <<>>, null, 0, 0)>>
                   /\ this'.writeQueued
             /\ this.queuedLogs = <<>>
                => /\ this'.pending = <<>>
                   /\ ~this'.writeQueued
       /\ (faults' = 0 /\ this'.cleared = {}) => IsPrefix(this'.sent, accepted')
      ]_vars

\* a burst of three events under maxBatchCount 2: the second cycle, scheduled
\* by the first put's success, takes the third event
C15_Witness ==
    /\ faults = 0
    /\ maxBatchCount = 2
    /\ Len(accepted) = 3
    /\ Trigger(this) = "timer:sendLogs"
    /\ Planned(this)
    /\ Batch(this) = <<accepted[3]>>
    /\ this.sent = accepted
    /\ this.delivered = SubSeq(accepted, 1, 2)

\* what the handler that just ran did, in order
Ops(t) == [i \in 1..Len(t.trace) |-> t.trace[i].op]

\* C16: describeLogStreams answering that the group is missing is followed by
\* createLogGroup; its success by the createLogGroup notification and then
\* createLogStream; its success by the createLogStream notification and then
\* describeLogStreams again.  A notification is emitted only in the step in
\* which its call succeeded, and a failed createLogGroup is followed by no
\* createLogStream.
C16_ProvisioningOrder ==
    LET e == this.trace[1] IN
    /\ (Trigger(this) = "cb:describeLogStreams" /\ e.err = "ResourceNotFoundException")
       => /\ Ops(this) = <<"cb:describeLogStreams", "createLogGroup">>
          /\ this.pending = <<Task("createLogGroup", <<>>, null, 0, 0)>>
    /\ (Trigger(this) = "cb:createLogGroup" /\ e.err = "")
       => /\ Ops(this) = <<"cb:createLogGroup", "emit:createLogGroup", "createLogStream">>
          /\ this.pending = <<Task("createLogStream", <<>>, null, 0, 0)>>
    /\ (Trigger(this) = "cb:createLogGroup" /\ e.err # "")
       => /\ Did(this, "createLogStream") = {}
          /\ Did(this, "emit:createLogGroup") = {}
          /\ \A i \in 1..Len(this.pending) : this.pending[i].kind # "createLogStream"
    /\ (Trigger(this) = "cb:createLogStream" /\ e.err = "")
       => /\ Ops(this) = <<"cb:createLogStream", "emit:createLogStream", "describeLogStreams">>
          /\ this.pending = <<Task("describeLogStreams", <<>>, null, 0, 0)>>
    /\ (Trigger(this) = "cb:createLogStream" /\ e.err # "")
       => Did(this, "emit:createLogStream") = {}
    /\ Did(this, "emit:createLogGroup") # {}
       => Trigger(this) = "cb:createLogGroup" /\ e.err = ""
    /\ Did(this, "emit:createLogStream") # {}
       => Trigger(this) = "cb:createLogStream" /\ e.err = ""
    /\ Did(this, "createLogGroup") # {}
       => Trigger(this) = "cb:describeLogStreams" /\ e.err = "ResourceNotFoundException"

\* the group was missing and has just been created: the notification went out
\* and createLogStream is in flight while a record waits in the queue
C16_Witness ==
    /\ Trigger(this) = "cb:createLogGroup"
    /\ this.trace[1].err = ""
    /\ Did(this, "emit:createLogGroup") # {}
    /\ Len(this.pending) = 1 /\ this.pending[1].kind = "createLogStream"
    /\ cloudwatch.group /\ ~cloudwatch.stream
    /\ Len(this.queuedLogs) > 0

\* C17: a batch is put only when the stream named logStreamName exists, and a
\* stored token is the token of that stream, whatever other streams the
\* group holds.
C17_TargetStreamBeforeSend ==
    /\ Did(this, "putLogEvents") # {} => cloudwatch.stream
    /\ this.sequenceToken # null
       => cloudwatch.stream /\ this.sequenceToken = cloudwatch.token

(* writes and clearQueue *)
\* the members of the instance other than the queue and the write flag
Others(t) == <<t.sequenceToken, t.onErrorNextCbId, t.filterWrite, t.callbacks>>

\* C18: a write the filter accepts appends one event at the tail of the queue
\* and leaves writeQueued true; it schedules _sendLogs exactly when
\* writeQueued was false.  A write the filter rejects changes neither the
\* queue nor writeQueued nor the token nor the callback id and schedules
\* nothing.
C18_WriteEffect ==
    [][Trigger(this') = "write" =>
          /\ Others(this') = Others(this)
          /\ IF filterWrite(this, [kind |-> this'.trace[1].err])
             THEN /\ Len(this'.queuedLogs) = Len(this.queuedLogs) + 1
                  /\ SubSeq(this'.queuedLogs, 1, Len(this.queuedLogs)) = this.queuedLogs
                  /\ this'.queuedLogs[Len(this'.queuedLogs)] = accepted'[Len(accepted')]
                  /\ Len(accepted') = Len(accepted) + 1
                  /\ this'.writeQueued
                  /\ this'.pending = IF this.writeQueued THEN this.pending
                                     ELSE Append(this.pending, Task("sendLogs", <<>>, null, 0, 0))
             ELSE /\ this'.queuedLogs = this.queuedLogs
                  /\ this'.writeQueued = this.writeQueued
                  /\ this'.pending = this.pending
      ]_vars

\* a second record was written while describeLogStreams was in flight: it is
\* queued behind the first and no second cycle is scheduled
C18_Witness ==
    /\ Trigger(this) = "write"
    /\ this.trace[1].err = "string"
    /\ Len(this.queuedLogs) = 2
    /\ this.queuedLogs = accepted
    /\ this.writeQueued
    /\ Len(this.pending) = 1 /\ this.pending[1].kind = "describeLogStreams"

\* C19: every _write calls its callback exactly once, as the last thing it
\* does; before any fail-stop, a write of a record that is not null is
\* queued at the tail in that same step whatever is scheduled, in flight or
\* awaited from the hook.
C19_WriteNeverBlocks ==
    [][Trigger(this') = "write" =>
          /\ Did(this', "cb") = {Len(this'.trace)}
          /\ Len(this'.trace) = 2
          /\ (~this.failed /\ this'.trace[1].err # "null")
             => this'.queuedLogs = Append(this.queuedLogs, accepted'[Len(accepted')])
      ]_vars

\* a record was written and acknowledged while the hook held a failed batch
\* and had not called next
C19_Witness ==
    /\ Trigger(this) = "write"
    /\ this.trace[1].err = "string"
    /\ Did(this, "cb") # {}
    /\ ~this.failed
    /\ this.pending = <<>>
    /\ \E i \in 1..Len(this.callbacks) :
           ~this.callbacks[i].called /\ this.callbacks[i].hasEvents
    /\ Len(this.queuedLogs) > 0
    /\ this.queuedLogs[Len(this.queuedLogs)] = accepted[Len(accepted)]

\* C20: clearQueue returns the queue as it was and leaves it empty; the token,
\* writeQueued, the callback id, the filter and what is scheduled or in
\* flight stay as they were.  A _sendLogs that fires on an empty queue puts
\* nothing, and with a token clears writeQueued.
C20_ClearQueueFrame ==
    [][/\ Trigger(this') = "clearQueue" =>
             /\ Ops(this') = <<"clearQueue", "return">>
             /\ this'.trace[2].logEvents = this.queuedLogs
             /\ this'.queuedLogs = <<>>
             /\ Others(this') = Others(this)
             /\ this'.writeQueued = this.writeQueued
             /\ this'.pending = this.pending
       /\ (Trigger(this') = "timer:sendLogs" /\ this.queuedLogs = <<>>) =>
             /\ Did(this', "putLogEvents") = {}
             /\ this'.queuedLogs = <<>>
             /\ this.sequenceToken # null => ~this'.writeQueued /\ this'.pending = <<>>
      ]_vars

\* clearQueue returned the queued record while an earlier batch was in flight
C20_Witness ==
    /\ Trigger(this) = "clearQueue"
    /\ Len(this.trace[2].logEvents) = 1
    /\ this.queuedLogs = <<>>
    /\ this.writeQueued
    /\ Len(this.pending) = 1 /\ this.pending[1].kind = "putLogEvents"
    /\ this.sequenceToken # null

(* where the accepted events are *)
SeqIds(batches) == UNION {Ids(batches[i]) : i \in 1..Len(batches)}
Queued == Ids(this.queuedLogs)
\* the batch of the putLogEvents call in flight or waiting for its retry timer
InFlight == SeqIds([i \in 1..Len(this.pending) |-> this.pending[i].logEvents])
Delivered == Ids(this.delivered)
\* handed to a hook that has not called next
Held == UNION {Ids(this.callbacks[i].logEvents) :
                  i \in {j \in 1..Len(this.callbacks) : ~this.callbacks[j].called}}
\* handed to a hook that has called next
HandedBefore == UNION {Ids(this.callbacks[i].logEvents) :
                          i \in {j \in 1..Len(this.callbacks) : this.callbacks[j].called}}
Discarded == this.cleared

\* C21: getQueueSize counts each waiting event once: the accepted events
\* that are in the queue, none of them in the batch being sent or retried,
\* held by the hook, delivered or cleared; while nothing is dropped it
\* counts exactly the accepted events that are in none of those places.
C21_QueueSizeCountsWaiting ==
    /\ getQueueSize(this) = Cardinality(Queued)
    /\ Queued \subseteq Ids(accepted)
    /\ Queued \cap (InFlight \cup Held \cup Delivered \cup Discarded) = {}
    /\ NothingDropped
       => getQueueSize(this)
            = Cardinality(Ids(accepted) \ (InFlight \cup Held \cup Delivered))

\* one event waits in the queue while the batch with the other is in flight
C21_Witness ==
    /\ Len(accepted) = 2
    /\ getQueueSize(this) = 1
    /\ Len(this.pending) = 1 /\ this.pending[1].kind = "putLogEvents"
    /\ this.pending[1].logEvents = <<accepted[1]>>
    /\ this.queuedLogs = <<accepted[2]>>

\* C22: the step in which a putLogEvents call succeeds emits putLogEvents
\* once, with the events of that call in order, when the token the
\* destination returned is stored and before the next _sendLogs is
\* scheduled; no other step emits it.
C22_OneNotificationPerSuccess ==
    /\ (Trigger(this) = "cb:putLogEvents" /\ this.trace[1].err = "")
       => /\ Ops(this) = <<"cb:putLogEvents", "emit:putLogEvents">>
          /\ this.trace[2].logEvents = this.trace[1].logEvents
          /\ this.trace[2].tokenNow = cloudwatch.token
          /\ this.trace[2].tokenNow # this.trace[1].tokenNow
          /\ this.trace[2].pendingNow = 0
    /\ Did(this, "emit:putLogEvents") # {}
       => Trigger(this) = "cb:putLogEvents" /\ this.trace[1].err = ""

\* a batch was delivered and notified while a later event was queued, so the
\* next cycle was scheduled, after the notification
C22_Witness ==
    /\ Trigger(this) = "cb:putLogEvents"
    /\ this.trace[1].err = ""
    /\ Len(this.trace) = 2
    /\ Len(accepted) = 2
    /\ this.trace[2].logEvents = <<accepted[1]>>
    /\ this.queuedLogs = <<accepted[2]>>
    /\ this.trace[2].pendingNow = 0
    /\ Len(this.pending) = 1 /\ this.pending[1].kind = "sendLogs"

\* C23: the places of the events are the queue, the batch in flight, the hook
\* that has not called next, the delivered events and the cleared events: no
\* event is in two of them or twice in the queue, and an accepted event that
\* is in none of them was handed to a hook that called next without it.
C23_NoSilentLoss ==
    /\ Queued \cup InFlight \cup Held \cup Delivered \cup Discarded \subseteq Ids(accepted)
    /\ Cardinality(Queued) = Len(this.queuedLogs)
    /\ Cardinality(Delivered) = Len(this.delivered)
    /\ Cardinality(Queued) + Cardinality(InFlight) + Cardinality(Held)
         + Cardinality(Delivered) + Cardinality(Discarded)
       = Cardinality(Queued \cup InFlight \cup Held \cup Delivered \cup Discarded)
    /\ Ids(accepted) \ (Queued \cup InFlight \cup Held \cup Delivered \cup Discarded)
         \subseteq HandedBefore

\* two events in two places: the first delivered, the second held by the
\* hook after its batch failed
C23_Witness ==
    /\ Len(accepted) = 2
    /\ Delivered = {accepted[1].id}
    /\ Held = {accepted[2].id}
    /\ Queued = {} /\ InFlight = {} /\ Discarded = {}

(* construction *)
\* the setting equals the option when a number was given, else the default
Unchanged(option, setting, default) ==
    setting = IF option.type = "number" THEN option.value ELSE default

\* C24: after a construction that returned, each setting is the value of its
\* option, and the default where the option was left out: maxBatchCount
\* 10000, maxBatchSize 1048576, retryableMax 100, retryableDelay 150,
\* writeInterval 'nextTick'.
C24_OptionsUsedUnchanged ==
    construction.phase = "constructed" =>
        LET o == construction.options IN
        /\ Unchanged(o.maxBatchSize, maxBatchSize, DefaultMaxBatchSize)
        /\ Unchanged(o.maxBatchCount, maxBatchCount, DefaultMaxBatchCount)
        /\ Unchanged(o.retryableMax, retryableMax, DefaultRetryableMax)
        /\ construction.retryableDelay
             = IF has(o.retryableDelay) THEN o.retryableDelay ELSE Num(DefaultRetryableDelay)
        /\ construction.writeInterval
             = IF has(o.writeInterval) THEN o.writeInterval ELSE NextTick

\* every setting but maxBatchSize is the value of its option or the default
OtherOptionsUsedUnchanged ==
    construction.phase = "constructed" =>
        LET o == construction.options IN
        /\ Unchanged(o.maxBatchCount, maxBatchCount, DefaultMaxBatchCount)
        /\ Unchanged(o.retryableMax, retryableMax, DefaultRetryableMax)
        /\ construction.retryableDelay
             = IF has(o.retryableDelay) THEN o.retryableDelay ELSE Num(DefaultRetryableDelay)
        /\ construction.writeInterval
             = IF has(o.writeInterval) THEN o.writeInterval ELSE NextTick

\* an option the claim calls invalid
InvalidOption(o) ==
    \/ o.logGroupName.type # "string"
    \/ o.logStreamName.type # "string"
    \/ has(o.maxBatchCount) /\ o.maxBatchCount.value \notin 1..10000
    \/ has(o.maxBatchSize) /\ o.maxBatchSize.value \notin 256..1048576
    \/ has(o.retryableMax) /\ o.retryableMax.value < 1
    \/ o.writeInterval.type = "number" /\ o.writeInterval.value < 0
    \/ o.retryableDelay.type = "number" /\ o.retryableDelay.value < 0

\* C25: a construction throws exactly when an option is invalid, and then
\* there is no instance and no service client; a construction that returns
\* threw nothing and leaves an empty queue, a null token and writeQueued
\* false.
C25_InvalidOptionsThrow ==
    /\ construction.phase # "new"
       => (construction.phase = "thrown" <=> InvalidOption(construction.options))
    /\ construction.phase = "thrown"
       => /\ construction.error # ""
          /\ this = NoInstance
          /\ ~construction.client
    /\ construction.phase = "constructed"
       => /\ construction.error = ""
          /\ this.queuedLogs = <<>>
          /\ this.sequenceToken = null
          /\ ~this.writeQueued
          /\ this.pending = <<>>

\* maxBatchCount 10001 with everything else valid: the constructor threw
C25_Witness ==
    /\ construction.phase = "thrown"
    /\ construction.options.maxBatchCount = Num(10001)
    /\ construction.options.maxBatchSize = Num(256)
    /\ construction.options.retryableMax = Num(1)
    /\ construction.options.logGroupName = Text
    /\ construction.options.logStreamName = Text
    /\ ~isFiniteNumber(construction.options.writeInterval)
    /\ construction.options.retryableDelay = Num(150)
    /\ this = NoInstance

\* C26: a construction with retryableMax 0 and otherwise valid options
\* returns, with retryableMax 0.
C26_ZeroRetryableMaxAccepted ==
    (/\ construction.phase # "new"
     /\ construction.options.retryableMax = Num(0)
     /\ ~InvalidOption([construction.options EXCEPT !.retryableMax = Omitted]))
    => /\ construction.phase = "constructed"
       /\ retryableMax = 0

(* the sequence token *)
DestinationCalls ==
    {"describeLogStreams", "createLogGroup", "createLogStream", "putLogEvents"}

\* C27: a _sendLogs that fires on an empty queue calls nothing at the
\* destination, clears writeQueued and schedules nothing, whatever the token.
C27_EmptyCycleIssuesNoCall ==
    (Trigger(this) = "timer:sendLogs" /\ this.trace[1].queueSize = 0) =>
        /\ \A i \in 1..Len(this.trace) : this.trace[i].op \notin DestinationCalls
        /\ ~this.writeQueued
        /\ this.pending = <<>>

\* a _sendLogs that fires on an empty queue while it holds a token calls
\* nothing at the destination and clears writeQueued
EmptyCycleWithTokenIssuesNoCall ==
    (/\ Trigger(this) = "timer:sendLogs"
     /\ this.trace[1].queueSize = 0
     /\ this.trace[1].tokenNow # null) =>
        /\ \A i \in 1..Len(this.trace) : this.trace[i].op \notin DestinationCalls
        /\ ~this.writeQueued
        /\ this.pending = <<>>

\* C28: the token is null when the hook is called, and stays null while a
\* hook has not called next.
C28_TokenNullAfterFailure ==
    /\ \A i \in Did(this, "onError") : this.trace[i].tokenNow = null
    /\ (\E i \in 1..Len(this.callbacks) : ~this.callbacks[i].called)
       => this.sequenceToken = null

\* the token is null once a hook's next was honored, until the next
\* describeLogStreams succeeds
TokenNullAfterNext ==
    Trigger(this) \in {"next:error", "next:none", "next:logEvents"}
        => this.sequenceToken = null

\* C29: putLogEvents is called with the stored token, which is not null and,
\* when the stream exists, the one the destination expects; a _sendLogs that
\* fires with a null token only calls describeLogStreams, and the batch is
\* put in the step in which that query succeeds; a _sendLogs that fires
\* with a token calls neither describeLogStreams nor a create.
C29_NoSendWithoutToken ==
    /\ \A i \in Did(this, "putLogEvents") :
           /\ this.trace[i].sequenceToken # null
           /\ this.trace[i].sequenceToken = this.trace[i].tokenNow
           /\ cloudwatch.stream => this.trace[i].sequenceToken = cloudwatch.token
    /\ (Trigger(this) = "timer:sendLogs" /\ this.trace[1].tokenNow = null)
       => Ops(this) = <<"timer:sendLogs", "describeLogStreams">>
    /\ (Trigger(this) = "timer:sendLogs" /\ this.trace[1].tokenNow # null)
       => \A i \in 1..Len(this.trace) :
              this.trace[i].op \notin {"describeLogStreams", "createLogGroup", "createLogStream"}
    /\ (Trigger(this) = "cb:describeLogStreams" /\ Did(this, "putLogEvents") # {})
       => this.trace[1].err = ""

\* the second batch is put by a cycle that held the token the first put returned
C29_Witness ==
    /\ Trigger(this) = "timer:sendLogs"
    /\ this.trace[1].tokenNow # null
    /\ Len(this.delivered) = 1
    /\ \E i \in Did(this, "putLogEvents") :
           /\ this.trace[i].sequenceToken = cloudwatch.token
           /\ this.trace[i].logEvents = <<accepted[2]>>
    /\ faults = 0

\* C30: a describeLogStreams, createLogGroup or createLogStream that failed
\* with a retryable error was the only attempt, goes to the hook in the same
\* step and is not issued again.
C30_OnlyPutIsRetried ==
    (TokenFailure(this) /\ this.trace[1].err \in RetryableErrors) =>
        /\ Cardinality(Did(this, "onError")) = 1
        /\ \A i \in Did(this, "onError") : this.trace[i].err = this.trace[1].err
        /\ \A i \in 1..Len(this.trace) : this.trace[i].op \notin DestinationCalls
        /\ this.trace[1].retries = 0
        /\ this.pending = <<>>

\* describeLogStreams was throttled although two retries are allowed: the
\* hook has the error and nothing is scheduled
C30_Witness ==
    /\ Trigger(this) = "cb:describeLogStreams"
    /\ this.trace[1].err \in RetryableErrors
    /\ retryableMax = 2
    /\ Did(this, "onError") # {}
    /\ onErrorOption
    /\ this.pending = <<>>

(* the callback id *)
\* the callbacks whose first call happened in the step from t to u
FirstCalled(t, u) ==
    {i \in 1..Len(u.callbacks) :
        u.callbacks[i].called /\ (i > Len(t.callbacks) \/ ~t.callbacks[i].called)}

\* those of them whose id was the current one when they were called, so that
\* _nextAfterError went on: the callbacks t already held are compared with
\* t's id, a callback made in this step carries the id it was made with
Honored(t, u) ==
    {i \in FirstCalled(t, u) :
        i <= Len(t.callbacks) => t.callbacks[i].cbId = t.onErrorNextCbId}

\* C31 as stated: _onErrorNextCbId grows by one for each failure handed to the
\* hook, and by nothing else.
C31_OncePerFailure ==
    [][this'.onErrorNextCbId
         = this.onErrorNextCbId + Cardinality(Did(this', "onError"))]_vars

\* C31 as amended: _onErrorNextCbId never decreases; it grows by one for each
\* failure handed to the hook and by one for each honored call of a `next`
\* callback, and by nothing else; a call that is not honored leaves it alone.
C31_OncePerFailureAndResume ==
    [][/\ this'.onErrorNextCbId >= this.onErrorNextCbId
       /\ this'.onErrorNextCbId
            = this.onErrorNextCbId + Cardinality(Did(this', "onError"))
                                   + Cardinality(Honored(this, this'))
       /\ Cardinality(Did(this', "onError")) = Len(this'.callbacks) - Len(this.callbacks)
       /\ Trigger(this') = "next:again" => Honored(this, this') = {}
      ]_vars

\* a second failure has just reached the hook after the first was resumed:
\* two failures and one honored resume took the id from 1 to 4
C31_Witness ==
    /\ onErrorOption
    /\ Did(this, "onError") # {}
    /\ Len(this.callbacks) = 2
    /\ this.callbacks[1].called /\ ~this.callbacks[2].called
    /\ this.onErrorNextCbId = 4
    /\ this.callbacks[2].cbId = 4

(* fail-stop *)
\* what the 'error' listener saw, for each 'error' emitted by the handler that
\* just ran: the queue as it was when the handler began, the filter that
\* accepts records, and a token already reset
ListenerSawLiveStream(t) ==
    \A i \in Did(t, "emit:error") :
        /\ t.trace[i].queueSize = t.trace[1].queueSize
        /\ t.trace[i].filter = "filterWrite"
        /\ t.trace[i].tokenNow = null
        /\ i = Len(t.trace)

\* C32: in the step in which a next(err) is honored, 'error' is emitted while
\* the queue is still what it was and the filter still accepts records;
\* when the step is over the queue is empty, the filter rejects every
\* record and the token is null.
C32_FailStopOrder ==
    Did(this, "emit:error") # {} =>
        /\ ListenerSawLiveStream(this)
        /\ this.queuedLogs = <<>>
        /\ this.filterWrite = "falseFilterWrite"
        /\ this.sequenceToken = null

\* the same while emit('error') returns: the order of the effects is the
\* claimed one, and the token is null in either case
FailStopOrderUnlessEmitThrows ==
    Did(this, "emit:error") # {} =>
        /\ ListenerSawLiveStream(this)
        /\ this.sequenceToken = null
        /\ this.failed
        /\ this.filterWrite = "falseFilterWrite" => this.queuedLogs = <<>>
        /\ this.filterWrite # "falseFilterWrite"
           => Len(this.queuedLogs) = this.trace[1].queueSize

\* C33: whenever a next(err) was honored, whether or not emit('error')
\* returned, the queue is empty and the filter rejects every record.
C33_FailStopAllOrNothing ==
    this.failed => /\ Len(this.queuedLogs) = 0
                   /\ ~filterWrite(this, [kind |-> "string", length |-> 1])

(* progress *)
\* a `next` callback that would be honored has been handed to the hook and
\* not been called
Awaiting(t) ==
    \E i \in 1..Len(t.callbacks) :
        ~t.callbacks[i].called /\ t.callbacks[i].cbId = t.onErrorNextCbId

\* C34: before any fail-stop, a non-empty queue has writeQueued set, and
\* writeQueued is set exactly while one thing stands for the cycle: a
\* scheduled _sendLogs, a destination call in flight, a retry timer, or a
\* hook that has not called next.
C34_QueuedImpliesPending ==
    ~this.failed =>
        /\ this.queuedLogs # <<>> => this.writeQueued
        /\ this.writeQueued <=> (Len(this.pending) = 1 \/ Awaiting(this))
        /\ ~(Len(this.pending) > 0 /\ Awaiting(this))
        /\ \A i \in 1..Len(this.pending) :
               this.pending[i].kind \in {"sendLogs", "retryTimer"} \cup DestinationCalls

\* an event written while the hook holds a failed batch waits in the queue:
\* nothing is scheduled or in flight, and an old callback called again has
\* not changed that
C34_Witness ==
    /\ ~this.failed
    /\ Trigger(this) = "next:again"
    /\ Len(this.queuedLogs) = 1
    /\ this.writeQueued
    /\ this.pending = <<>>
    /\ Awaiting(this)
    /\ Held # {}

\* C35: when every timer fires, every destination call completes, the
\* failures are finitely many and the hook resumes every failure with the
\* events it was handed, the stream in the end stays idle with everything
\* that was ever accepted notified by 'putLogEvents', in write order: the
\* queue empty, writeQueued false, nothing scheduled or in flight.  (The
\* accepted events only grow, so each of them is eventually notified.)
C35_EventuallyDelivered ==
    <>[](/\ this.delivered = accepted
         /\ this.queuedLogs = <<>>
         /\ Quiescent)

\* two events were delivered and the stream idles, after the destination had
\* failed MaxFaults times and the hook had given a failed batch back
C35_Witness ==
    /\ Len(accepted) = 2
    /\ this.delivered = accepted
    /\ this.queuedLogs = <<>>
    /\ Quiescent
    /\ faults = MaxFaults
    /\ \E i \in 1..Len(this.callbacks) :
           this.callbacks[i].called /\ this.callbacks[i].hasEvents

(* the end of a token acquisition *)
\* the handler that just ran was the completion of a token-acquisition call
\* and issued no further one: the acquisition is over
AcquisitionOver(t) ==
    /\ Trigger(t) \in TokenSteps
    /\ \A i \in 1..Len(t.trace) :
           t.trace[i].op \notin {"describeLogStreams", "createLogGroup", "createLogStream"}

\* one acquisition issues describeLogStreams at most twice, createLogGroup
\* and createLogStream at most once, and a second describeLogStreams only
\* after a createLogStream
BoundedAcquisition(t) ==
    /\ t.acquiring.describeLogStreams <= 2
    /\ t.acquiring.createLogGroup <= 1
    /\ t.acquiring.createLogStream <= 1
    /\ t.acquiring.createLogGroup <= t.acquiring.createLogStream + 1
    /\ t.acquiring.describeLogStreams = 2 => t.acquiring.createLogStream = 1
    /\ \A i \in 1..Len(t.pending) :
           t.pending[i].kind \in {"describeLogStreams", "createLogGroup", "createLogStream"}
           => t.acquiring.describeLogStreams >= 1

\* C36 as stated: an acquisition is over after at most 2 describeLogStreams,
\* 1 createLogGroup and 1 createLogStream, and the step that ends it puts a
\* batch or calls the hook.
C36_AcquisitionEndsInPutOrHook ==
    /\ BoundedAcquisition(this)
    /\ AcquisitionOver(this)
       => (Did(this, "putLogEvents") # {} \/ Did(this, "onError") # {})

\* C36 as amended: an acquisition is over after at most 2 describeLogStreams,
\* 1 createLogGroup and 1 createLogStream; the step that ends it calls the
\* hook when the call failed; when the token arrived it puts a batch, or,
\* the queue being empty, clears writeQueued and issues nothing.
C36_AcquisitionEndsInPutHookOrIdle ==
    /\ BoundedAcquisition(this)
    /\ AcquisitionOver(this)
       => IF this.trace[1].err # ""
          THEN /\ Cardinality(Did(this, "onError")) = 1
               /\ Did(this, "putLogEvents") = {}
          ELSE /\ Trigger(this) = "cb:describeLogStreams"
               /\ Did(this, "onError") = {}
               /\ IF this.trace[1].queueSize > 0
                  THEN /\ Cardinality(Did(this, "putLogEvents")) = 1
                       /\ Len(this.pending) = 1 /\ this.pending[1].kind = "putLogEvents"
                  ELSE /\ Did(this, "putLogEvents") = {}
                       /\ ~this.writeQueued
                       /\ this.pending = <<>>

\* group and stream were missing: the acquisition created both and its second
\* describeLogStreams brought the token, with which the batch was put
C36_Witness ==
    /\ AcquisitionOver(this)
    /\ this.acquiring = [describeLogStreams |-> 2, createLogGroup |-> 1,
                         createLogStream |-> 1]
    /\ Did(this, "putLogEvents") # {}
    /\ this.sequenceToken = cloudwatch.token

(* the attempts of one send *)
\* C37: the first attempt of a send carries the events taken from the queue
\* head and the stored token, with the retry count at zero, also when the
\* events had been given back by the hook; the retry timer set after a
\* failed attempt and the attempt it starts carry the same events and
\* token as the failed attempt; a write made while an attempt is in flight
\* or a retry timer is set leaves them as they are.
C37_AttemptsCarrySameBatch ==
    [][/\ Planned(this') =>
             /\ this'.pending = <<Task("putLogEvents", Batch(this'), this'.sequenceToken, 0, 1)>>
             /\ this.queuedLogs = Batch(this') \o this'.queuedLogs
             /\ \A i \in Did(this', "putLogEvents") :
                    /\ this'.trace[i].sequenceToken = this'.sequenceToken
                    /\ this'.trace[i].sequenceToken # null
       /\ (Trigger(this') = "cb:putLogEvents" /\ this'.trace[1].err # ""
             /\ Did(this', "onError") = {}) =>
             /\ Len(this.pending) = 1
             /\ this.pending[1].kind = "putLogEvents"
             /\ this'.pending = <<Task("retryTimer", this.pending[1].logEvents,
                                       this.pending[1].sequenceToken,
                                       this.pending[1].retries + 1,
                                       this.pending[1].attempts)>>
       /\ Trigger(this') = "timer:attemptPut" =>
             /\ Len(this.pending) = 1
             /\ this.pending[1].kind = "retryTimer"
             /\ this'.pending = <<Task("putLogEvents", this.pending[1].logEvents,
                                       this.pending[1].sequenceToken,
                                       this.pending[1].retries,
                                       this.pending[1].attempts + 1)>>
             /\ Ops(this') = <<"timer:attemptPut", "putLogEvents">>
             /\ this'.trace[2].logEvents = this.pending[1].logEvents
             /\ this'.trace[2].sequenceToken = this.pending[1].sequenceToken
             /\ this'.queuedLogs = this.queuedLogs
       /\ (Trigger(this') = "write" /\ InFlight # {}) =>
             /\ this'.pending = this.pending
             /\ Ids(accepted') \ Ids(accepted) \subseteq Ids(this'.queuedLogs)
      ]_vars

\* a batch whose send had been retried and had failed was given back by the
\* hook and is sent again: first attempt, retry count zero
C37_ResendWitness ==
    /\ Planned(this)
    /\ retryableMax = 1
    /\ faults = 2
    /\ Len(this.callbacks) = 1
    /\ this.callbacks[1].called /\ this.callbacks[1].hasEvents
    /\ Batch(this) = this.callbacks[1].logEvents
    /\ this.pending[1].retries = 0 /\ this.pending[1].attempts = 1

\* an attempt started by the retry timer carries the first event alone,
\* although the second was written before the timer fired
C37_Witness ==
    /\ Trigger(this) = "timer:attemptPut"
    /\ Len(accepted) = 2
    /\ this.pending[1].logEvents = <<accepted[1]>>
    /\ this.pending[1].attempts = 2
    /\ this.queuedLogs = <<accepted[2]>>
    /\ maxBatchCount = 2

(* nextLogBatchSize as a function *)
\* C38: whatever array it is handed, the empty one included, nextLogBatchSize
\* returns no more than the array's length and leaves the array as it was.
C38_WithinSnapshotLength ==
    this.returned => /\ this.batchCount <= Len(this.argument)
                     /\ this.queuedLogs = this.argument

\* handed an array that is not empty, nextLogBatchSize returns at least 1 and
\* no more than the array's length, and leaves the array as it was
NonEmptySnapshotWithinLength ==
    (this.returned /\ Len(this.argument) > 0) =>
        /\ this.batchCount \in 1..Len(this.argument)
        /\ this.queuedLogs = this.argument

====
